---- MODULE Spec2Model ----
(***************************************************************************)
(* File discovery of the lint driver: findFiles and the helpers it calls   *)
(* (globSearch, globMatch, throwErrorForUnmatchedPatterns,                 *)
(* globMultiSearch).  Paths are sequences of segments; an absolute path    *)
(* starts with the segment "/".  The platform is POSIX (path.sep = "/")    *)
(* and the patterns of the pool are typed with forward slashes.            *)
(***************************************************************************)
EXTENDS Integers, Sequences, FiniteSets, TLC

(***************************************************************************)
(* Bounds of the model.                                                    *)
(***************************************************************************)
\* longest pattern list handed to findFiles
MaxPatterns == 2

(***************************************************************************)
(* The filesystem the walks run on.                                        *)
(*   /r/b/z.js   /r/c/d/w.js   /r/t.js   regular files                     *)
(*   /r/p                                 a FIFO (neither file nor dir)    *)
(***************************************************************************)
Root == "/"
cwd == <<Root, "r">>

Directories ==
    { <<Root>>, cwd, cwd \o <<"b">>, cwd \o <<"c">>, cwd \o <<"c", "d">> }

RegularFiles ==
    { cwd \o <<"b", "z.js">>, cwd \o <<"c", "d", "w.js">>, cwd \o <<"t.js">> }

OtherEntries == { cwd \o <<"p">> }

\* every non-directory entry a directory listing can yield
FileEntries == RegularFiles \cup OtherEntries

\* the names a directory read yields, in the order of the read
ReadDir(dir) ==
    CASE dir = <<Root>>              -> <<"r">>
      [] dir = cwd                   -> <<"b", "c", "p", "t.js">>
      [] dir = cwd \o <<"b">>        -> <<"z.js">>
      [] dir = cwd \o <<"c">>        -> <<"d">>
      [] dir = cwd \o <<"c", "d">>   -> <<"w.js">>
      [] OTHER                       -> <<>>

\* fs.promises.stat(filePath).catch(() => {}) : the kind of the entry, or
\* "none" when the stat fails
Stat(filePath) ==
    IF filePath \in RegularFiles THEN "file"
    ELSE IF filePath \in Directories THEN "directory"
    ELSE IF filePath \in OtherEntries THEN "other"
    ELSE "none"

\* hfs.isDirectory(basePath)
IsDirectory(path) == path \in Directories

(***************************************************************************)
(* node:path on POSIX.                                                     *)
(***************************************************************************)
IsAbsolute(path) == Len(path) > 0 /\ path[1] = Root

RECURSIVE NormalizeSegments(_, _)
\* resolves "." and ".." segments of `rest` onto the absolute path `acc`
NormalizeSegments(acc, rest) ==
    IF rest = <<>> THEN acc
    ELSE IF Head(rest) = "." THEN NormalizeSegments(acc, Tail(rest))
    ELSE IF Head(rest) = ".."
         THEN NormalizeSegments(
                  IF Len(acc) > 1 THEN SubSeq(acc, 1, Len(acc) - 1) ELSE acc,
                  Tail(rest))
    ELSE NormalizeSegments(Append(acc, Head(rest)), Tail(rest))

\* path.resolve(from, to)
Resolve(from, to) ==
    IF IsAbsolute(to) THEN NormalizeSegments(<<Root>>, Tail(to))
    ELSE NormalizeSegments(from, to)

RECURSIVE CommonPrefixLen(_, _)
CommonPrefixLen(a, b) ==
    IF a = <<>> \/ b = <<>> \/ Head(a) # Head(b) THEN 0
    ELSE 1 + CommonPrefixLen(Tail(a), Tail(b))

\* path.relative(from, to) for two absolute paths
Relative(from, to) ==
    LET n == CommonPrefixLen(from, to)
    IN  [i \in 1..(Len(from) - n) |-> ".."] \o SubSeq(to, n + 1, Len(to))

\* the names of the inputs that hold a backslash, with the portions the
\* backslash separates
BackslashParts ==
    [s \in {"c\\*.py", "b\\z.js"} |->
        CASE s = "c\\*.py" -> <<"c", "*.py">>
          [] s = "b\\z.js" -> <<"b", "z.js">>]

RECURSIVE normalizeToPosix(_)
\* pattern.replace(/\\/gu, "/"): every backslash becomes a separator, so a
\* name that holds one falls into several segments
normalizeToPosix(pattern) ==
    IF pattern = <<>> THEN <<>>
    ELSE (IF Head(pattern) \in DOMAIN BackslashParts
          THEN BackslashParts[Head(pattern)]
          ELSE <<Head(pattern)>>) \o normalizeToPosix(Tail(pattern))

\* path.dirname of a relative pattern
Dirname(path) ==
    IF Len(path) <= 1 THEN <<".">> ELSE SubSeq(path, 1, Len(path) - 1)

(***************************************************************************)
(* Glob syntax: is-glob, glob-parent and minimatch with { dot: true }.     *)
(***************************************************************************)
GLOBSTAR == "**"

\* the segments of the pool that carry glob metacharacters, with the suffix
\* the segment requires after its star
StarSuffix == [s \in {"*", "*.js", "*.py"} |->
                 CASE s = "*" -> "" [] s = "*.js" -> ".js" [] s = "*.py" -> ".py"]

\* the extension of an entry name
Suffix(name) ==
    IF name \in {"z.js", "w.js", "t.js"} THEN ".js" ELSE ""

IsGlobSegment(seg) == seg = GLOBSTAR \/ seg \in DOMAIN StarSuffix

\* isGlobPattern(pattern)
isGlobPattern(pattern) == \E i \in 1..Len(pattern) : IsGlobSegment(pattern[i])
\* a grouping that roots every glob at the working directory
globParentCwd(pattern) == <<".">>

RECURSIVE globParent(_)
\* glob-parent: take the dirname until no glob segment is left
globParent(pattern) ==
    LET parent == Dirname(pattern)
    IN  IF isGlobPattern(parent) THEN globParent(parent) ELSE parent

\* one path portion against one pattern portion
SegmentMatch(p, f) ==
    IF p \in DOMAIN StarSuffix
    THEN StarSuffix[p] = "" \/ Suffix(f) = StarSuffix[p]
    ELSE p = f

RECURSIVE matchOne(_, _, _)
\* a matcher for which a pattern that runs out matches whatever is left of
\* the path
matchOneLoose(file, pattern, partial) ==
    IF pattern = <<>> THEN TRUE
    ELSE IF file = <<>> THEN partial
    ELSE IF Head(pattern) = GLOBSTAR
         THEN IF Len(pattern) = 1 THEN TRUE
              ELSE \/ \E fr \in 1..Len(file) :
                        matchOne(SubSeq(file, fr, Len(file)), Tail(pattern), partial)
                   \/ partial
    ELSE /\ SegmentMatch(Head(pattern), Head(file))
         /\ matchOne(Tail(file), Tail(pattern), partial)

\* Minimatch.prototype.matchOne(file, pattern, partial)
matchOne(file, pattern, partial) ==
    IF file = <<>> /\ pattern = <<>> THEN TRUE
    ELSE IF file = <<>> THEN partial
    ELSE IF pattern = <<>> THEN FALSE
    ELSE IF Head(pattern) = GLOBSTAR
         THEN IF Len(pattern) = 1 THEN TRUE
              ELSE \/ \E fr \in 1..Len(file) :
                        matchOne(SubSeq(file, fr, Len(file)), Tail(pattern), partial)
                   \/ partial
    ELSE /\ SegmentMatch(Head(pattern), Head(file))
         /\ matchOne(Tail(file), Tail(pattern), partial)

\* matcher.match(entry.path) and matcher.match(entry.path, true) of
\* new Minimatch(patternToUse, MINIMATCH_OPTIONS)
Match(patternToUse, entryPath, partial) ==
    IF patternToUse = <<>> THEN entryPath = <<>>
    ELSE matchOne(entryPath, patternToUse, partial)

(***************************************************************************)
(* The inputs of one findFiles call.                                       *)
(***************************************************************************)
\* the patterns a caller may pass
PatternPool ==
    { <<"b", "z.js">>,         \* a regular file
      <<"p">>,                 \* exists, neither file nor directory
      <<"c", "d">>,            \* a directory below another one
      <<".">>,                 \* the working directory
      <<"*">>,                 \* glob, base cwd
      <<"**", "*.js">>,        \* glob, base cwd
      <<"b", "**", "*.js">>,   \* glob, base /r/b
      <<"c", "*.py">>,         \* glob that no file matches, base /r/c
      <<"nope.js">> }          \* no such path

PatternLists ==
    UNION { [1..n -> PatternPool] : n \in 0..MaxPatterns }

\* patterns as a caller may type them, backslashes included
TypedPool ==
    { <<"c">>,                 \* a directory
      <<".">>,                 \* the working directory
      <<"c", "*.py">>,         \* glob that no file matches, base /r/c
      <<"c\\*.py">>,           \* the same glob typed with a backslash
      <<"b\\z.js">> }          \* a regular file typed with a backslash

TypedLists ==
    UNION { [1..n -> TypedPool] : n \in 0..MaxPatterns }

\* the directories the provider may report as ignored
IgnorableDirectories == Directories \ { <<Root>>, cwd }

\* the sets of directories the provider may ignore: /r/b is ignored alone
\* or along with /r/c
IgnoredChoices ==
    { ignored \in SUBSET IgnorableDirectories :
          (cwd \o <<"b">>) \in ignored =>
              (cwd \o <<"c", "d">>) \notin ignored }

\* the entries the provider may have no configuration for: none, the file
\* below /r/b, or the two entries at the top of the working directory
UnconfiguredChoices ==
    { {}, { cwd \o <<"b", "z.js">> }, { cwd \o <<"t.js">>, cwd \o <<"p">> } }

ConfiguredChoices == { FileEntries \ u : u \in UnconfiguredChoices }

\* the files for which loading the configuration may fail: none, or the
\* file below /r/c/d (for a provider that configures every entry and
\* ignores no directory)
BrokenChoices == { {}, { cwd \o <<"c", "d", "w.js">> } }

VARIABLES
    patterns,                  \* args.patterns
    globInputPaths,            \* args.globInputPaths
    errorOnUnmatchedPattern,   \* args.errorOnUnmatchedPattern
    ignoredDirectories,        \* provider: isDirectoryIgnored(path) is true
    configuredFiles,           \* provider: getConfig(path) is not undefined
    brokenFiles,               \* provider: loadConfigArrayForFile(path) throws
    pc,                        \* where findFiles stands
    results,                   \* findFiles: results
    missingPatterns,           \* findFiles: missingPatterns
    searches,                  \* findFiles: searches, in Map insertion order
    walks,                     \* one globSearch per normalized search
    providerCalls,             \* the calls made to the configuration provider
    firstSettled,              \* index of the globSearch that settled first
    failing,                   \* globMultiSearch: index of the rejected result
    outcome                    \* what findFiles returned or threw

vars == << patterns, globInputPaths, errorOnUnmatchedPattern,
           ignoredDirectories, configuredFiles, brokenFiles, pc, results, missingPatterns,
           searches, walks, providerCalls, firstSettled, failing, outcome >>

inputs == << patterns, globInputPaths, errorOnUnmatchedPattern,
             ignoredDirectories, configuredFiles, brokenFiles >>

Range(seq) == { seq[i] : i \in 1..Len(seq) }

NoOutcome ==
    [kind |-> "none", files |-> <<>>, pattern |-> <<>>, globEnabled |-> FALSE]

\* class NoFilesFoundError
NoFilesFoundError(pattern, globEnabled) ==
    [kind |-> "NoFilesFoundError", files |-> <<>>, pattern |-> pattern,
     globEnabled |-> globEnabled]

\* class AllFilesIgnoredError
AllFilesIgnoredError(pattern) ==
    [kind |-> "AllFilesIgnoredError", files |-> <<>>, pattern |-> pattern,
     globEnabled |-> FALSE]

\* class UnmatchedSearchPatternsError, thrown by the search of basePath
UnmatchedSearchPatternsError ==
    [kind |-> "UnmatchedSearchPatternsError", files |-> <<>>, pattern |-> <<>>,
     globEnabled |-> FALSE]

\* the error of the provider that could not load the configuration of a
\* file; `pattern` holds the path of the file
ProviderError(absolutePath) ==
    [kind |-> "ProviderError", files |-> <<>>, pattern |-> absolutePath,
     globEnabled |-> FALSE]

Returned(files) ==
    [kind |-> "files", files |-> files, pattern |-> <<>>, globEnabled |-> FALSE]

(***************************************************************************)
(* The configuration provider.                                             *)
(***************************************************************************)
\* configs.isDirectoryIgnored(absolutePath)
isDirectoryIgnored(absolutePath) == absolutePath \in ignoredDirectories

\* configs.getConfig(absolutePath) is not undefined
getConfig(absolutePath) == absolutePath \in configuredFiles

\* configLoader.loadConfigArrayForFile(absolutePath) throws
loadConfigArrayForFileThrows(absolutePath) == absolutePath \in brokenFiles

(***************************************************************************)
(* findFiles: classification of the patterns.                              *)
(***************************************************************************)
\* searches.has(basePath)
HasSearch(map, basePath) == \E i \in 1..Len(map) : map[i].basePath = basePath

\* a grouping that puts the raw pattern at the front of rawPatterns
PushSearchRawFirst(map, basePath, globbyPattern, rawPattern) ==
    LET withKey ==
            IF HasSearch(map, basePath) THEN map
            ELSE Append(map, [basePath |-> basePath, patterns |-> <<>>,
                              rawPatterns |-> <<>>])
    IN  [i \in 1..Len(withKey) |->
            IF withKey[i].basePath = basePath
            THEN [withKey[i] EXCEPT
                     !.patterns = Append(@, globbyPattern),
                     !.rawPatterns = <<rawPattern>> \o @]
            ELSE withKey[i]]

\* searches.set(basePath, { patterns: [], rawPatterns: [] }) when the key is
\* new, then the two pushes onto the arrays of searches.get(basePath)
PushSearch(map, basePath, globbyPattern, rawPattern) ==
    LET withKey ==
            IF HasSearch(map, basePath) THEN map
            ELSE Append(map, [basePath |-> basePath, patterns |-> <<>>,
                              rawPatterns |-> <<>>])
    IN  [i \in 1..Len(withKey) |->
            IF withKey[i].basePath = basePath
            THEN [withKey[i] EXCEPT
                     !.patterns = Append(@, globbyPattern),
                     !.rawPatterns = Append(@, rawPattern)]
            ELSE withKey[i]]
\* a classification that searches for a regular file like for a glob
ClassifyOneFileAsSearch(acc, input, globEnabled) ==
    LET filePath == Resolve(cwd, input)
        pattern == normalizeToPosix(input)
        stat == Stat(filePath)
    IN  IF stat = "file"
        THEN [acc EXCEPT !.searches =
                 PushSearch(@, Resolve(cwd, Dirname(pattern)), filePath, pattern)]
        ELSE IF stat = "directory"
        THEN [acc EXCEPT !.searches =
                 PushSearch(@, filePath, filePath \o <<GLOBSTAR>>, pattern)]
        ELSE IF stat # "none"
        THEN acc
        ELSE IF globEnabled /\ isGlobPattern(pattern)
        THEN [acc EXCEPT !.searches =
                 PushSearch(@, Resolve(cwd, globParent(pattern)), filePath,
                            pattern)]
        ELSE [acc EXCEPT !.missingPatterns = Append(@, pattern)]

\* the body of stats.forEach for one index
ClassifyOne(acc, input, globEnabled) ==
    LET filePath == Resolve(cwd, input)
        pattern == normalizeToPosix(input)
        stat == Stat(filePath)
    IN  IF stat = "file"
        THEN [acc EXCEPT !.results = Append(@, filePath)]
        ELSE IF stat = "directory"
        THEN [acc EXCEPT !.searches =
                 PushSearch(@, filePath,
                            normalizeToPosix(filePath) \o <<GLOBSTAR>>, pattern)]
        ELSE IF stat # "none"
        THEN acc
        ELSE IF globEnabled /\ isGlobPattern(pattern)
        THEN [acc EXCEPT !.searches =
                 PushSearch(@, Resolve(cwd, globParent(pattern)), filePath,
                            pattern)]
        ELSE [acc EXCEPT !.missingPatterns = Append(@, pattern)]

RECURSIVE ClassifyFrom(_, _, _, _)
ClassifyFrom(acc, list, index, globEnabled) ==
    IF index > Len(list) THEN acc
    ELSE ClassifyFrom(ClassifyOne(acc, list[index], globEnabled), list,
                      index + 1, globEnabled)

\* findFiles up to the end of stats.forEach
Classify(list, globEnabled) ==
    ClassifyFrom([results |-> <<>>,
                  missingPatterns |-> <<>>,
                  searches |-> << [basePath |-> cwd, patterns |-> <<>>,
                                   rawPatterns |-> <<>>] >>],
                 list, 1, globEnabled)

(***************************************************************************)
(* globSearch: one walk of a base path.                                    *)
(***************************************************************************)
\* the entries hfs.walk lists for one directory, paths relative to the base
Entries(basePath, parentPath) ==
    LET dir == basePath \o parentPath
        names == ReadDir(dir)
    IN  [j \in 1..Len(names) |->
            [path |-> Append(parentPath, names[j]),
             isDirectory |-> IsDirectory(Append(dir, names[j]))]]
\* a walk that treats the base path as its first entry, so that the
\* directory filter is applied to it
WalkStartFiltered(basePath) ==
    IF IsDirectory(basePath)
    THEN << [path |-> <<>>, isDirectory |-> TRUE] >>
    ELSE <<>>

\* hfs.walk(basePath, ...) guarded by hfs.isDirectory(basePath): the entries
\* the walk starts with.  The base path itself is not an entry.
WalkStart(basePath) ==
    IF IsDirectory(basePath) THEN Entries(basePath, <<>>) ELSE <<>>

\* globSearch up to the start of the walk
globSearchStart(search) ==
    LET matchers == [i \in 1..Len(search.patterns) |->
                        normalizeToPosix(
                            Relative(search.basePath, search.patterns[i]))]
    IN  [basePath |-> search.basePath,
         patterns |-> search.patterns,
         rawPatterns |-> search.rawPatterns,
         matchers |-> matchers,
         unmatchedPatterns |-> Range(matchers),
         todo |-> WalkStart(search.basePath),
         filePaths |-> <<>>,
         status |-> "running",
         reason |-> NoOutcome]
\* a directory filter that never asks the provider
directoryFilterNoIgnore(walk, entry) ==
    [descend |-> \E i \in 1..Len(walk.matchers) :
                     Match(walk.matchers[i], entry.path, TRUE),
     asked |-> {}]

\* directoryFilter(entry) of globSearch: whether the walk descends, and
\* whether the provider was asked
directoryFilter(walk, entry) ==
    LET absolutePath == Resolve(walk.basePath, entry.path)
    IN  IF ~ \E i \in 1..Len(walk.matchers) :
                 Match(walk.matchers[i], entry.path, TRUE)
        THEN [descend |-> FALSE, asked |-> {}]
        ELSE [descend |-> ~ isDirectoryIgnored(absolutePath),
              asked |-> {[op |-> "isDirectoryIgnored", path |-> absolutePath]}]

RECURSIVE ReduceMatchersNoConfig(_, _, _, _, _)
\* a reduce that removes a pattern from the unmatched set on a path match
\* alone
ReduceMatchersNoConfig(walk, entry, config, i, acc) ==
    IF i > Len(walk.matchers) THEN acc
    ELSE LET pathMatches == Match(walk.matchers[i], entry.path, FALSE)
         IN  ReduceMatchersNoConfig(walk, entry, config, i + 1,
                 [value |-> pathMatches \/ acc.value,
                  unmatchedPatterns |->
                      IF pathMatches
                      THEN acc.unmatchedPatterns \ {walk.matchers[i]}
                      ELSE acc.unmatchedPatterns])

RECURSIVE ReduceMatchers(_, _, _, _, _)
\* matchers.reduce(...) of entryFilter from matcher i on: the value reduced
\* so far and the unmatched set, both updated matcher by matcher
ReduceMatchers(walk, entry, config, i, acc) ==
    IF i > Len(walk.matchers) THEN acc
    ELSE LET pathMatches == Match(walk.matchers[i], entry.path, FALSE)
         IN  ReduceMatchers(walk, entry, config, i + 1,
                 [value |-> pathMatches \/ acc.value,
                  unmatchedPatterns |->
                      IF pathMatches /\ config
                      THEN acc.unmatchedPatterns \ {walk.matchers[i]}
                      ELSE acc.unmatchedPatterns])

\* an entry filter that returns matchesPattern alone
entryFilterNoConfig(walk, entry) ==
    LET config == getConfig(Resolve(walk.basePath, entry.path))
        reduced == ReduceMatchers(walk, entry, config, 1,
                       [value |-> FALSE,
                        unmatchedPatterns |-> walk.unmatchedPatterns])
    IN  [emit |-> ~ entry.isDirectory /\ reduced.value,
         unmatchedPatterns |->
             IF entry.isDirectory THEN walk.unmatchedPatterns
             ELSE reduced.unmatchedPatterns,
         asked |-> {},
         throws |-> FALSE]

\* an entry filter whose fast path asks for every matcher to match
entryFilterEvery(walk, entry) ==
    LET absolutePath == Resolve(walk.basePath, entry.path)
        config == getConfig(absolutePath)
        reduced == ReduceMatchers(walk, entry, config, 1,
                       [value |-> FALSE,
                        unmatchedPatterns |-> walk.unmatchedPatterns])
        matchesPattern ==
            IF walk.unmatchedPatterns # {}
            THEN reduced.value
            ELSE \A i \in 1..Len(walk.matchers) :
                     Match(walk.matchers[i], entry.path, FALSE)
    IN  IF entry.isDirectory
        THEN [emit |-> FALSE, unmatchedPatterns |-> walk.unmatchedPatterns,
              asked |-> {}, throws |-> FALSE]
        ELSE IF loadConfigArrayForFileThrows(absolutePath)
        THEN [emit |-> FALSE, unmatchedPatterns |-> walk.unmatchedPatterns,
              asked |-> {[op |-> "loadConfigArrayForFile",
                          path |-> absolutePath]},
              throws |-> TRUE]
        ELSE [emit |-> matchesPattern /\ config,
              unmatchedPatterns |->
                  IF walk.unmatchedPatterns # {}
                  THEN reduced.unmatchedPatterns
                  ELSE walk.unmatchedPatterns,
              asked |-> {[op |-> "getConfig", path |-> absolutePath]},
              throws |-> FALSE]

\* one unmatched set for all the searches: a relative pattern another search
\* has removed is removed here as well
SharedUnmatched(walk) ==
    walk.unmatchedPatterns \
        UNION { Range(walks[j].matchers) \ walks[j].unmatchedPatterns :
                    j \in 1..Len(walks) }

\* an entry filter that works on the shared unmatched set
entryFilterShared(walk, entry) ==
    LET absolutePath == Resolve(walk.basePath, entry.path)
        config == getConfig(absolutePath)
        reduced == ReduceMatchers(walk, entry, config, 1,
                       [value |-> FALSE,
                        unmatchedPatterns |-> SharedUnmatched(walk)])
        matchesPattern ==
            IF SharedUnmatched(walk) # {}
            THEN reduced.value
            ELSE \E i \in 1..Len(walk.matchers) :
                     Match(walk.matchers[i], entry.path, FALSE)
    IN  IF entry.isDirectory
        THEN [emit |-> FALSE, unmatchedPatterns |-> SharedUnmatched(walk),
              asked |-> {}, throws |-> FALSE]
        ELSE IF loadConfigArrayForFileThrows(absolutePath)
        THEN [emit |-> FALSE, unmatchedPatterns |-> SharedUnmatched(walk),
              asked |-> {[op |-> "loadConfigArrayForFile",
                          path |-> absolutePath]},
              throws |-> TRUE]
        ELSE [emit |-> matchesPattern /\ config,
              unmatchedPatterns |->
                  IF SharedUnmatched(walk) # {}
                  THEN reduced.unmatchedPatterns
                  ELSE SharedUnmatched(walk),
              asked |-> {[op |-> "getConfig", path |-> absolutePath]},
              throws |-> FALSE]

\* entryFilter(entry) of globSearch: whether the entry is emitted, the
\* unmatched set afterwards, and whether the provider was asked
entryFilter(walk, entry) ==
    LET absolutePath == Resolve(walk.basePath, entry.path)
        config == getConfig(absolutePath)
        reduced == ReduceMatchers(walk, entry, config, 1,
                       [value |-> FALSE,
                        unmatchedPatterns |-> walk.unmatchedPatterns])
        matchesPattern ==
            IF walk.unmatchedPatterns # {}
            THEN reduced.value
            ELSE \E i \in 1..Len(walk.matchers) :
                     Match(walk.matchers[i], entry.path, FALSE)
    IN  IF entry.isDirectory
        THEN [emit |-> FALSE, unmatchedPatterns |-> walk.unmatchedPatterns,
              asked |-> {}, throws |-> FALSE]
        ELSE IF loadConfigArrayForFileThrows(absolutePath)
        THEN [emit |-> FALSE, unmatchedPatterns |-> walk.unmatchedPatterns,
              asked |-> {[op |-> "loadConfigArrayForFile",
                          path |-> absolutePath]},
              throws |-> TRUE]
        ELSE [emit |-> matchesPattern /\ config,
              unmatchedPatterns |->
                  IF walk.unmatchedPatterns # {}
                  THEN reduced.unmatchedPatterns
                  ELSE walk.unmatchedPatterns,
              asked |-> {[op |-> "getConfig", path |-> absolutePath]},
              throws |-> FALSE]

\* the entry the walk yields is pushed as path.resolve(basePath, entry.path)
EmittedPath(walk, entry) == Resolve(walk.basePath, entry.path)

\* error.unmatchedPatterns of UnmatchedSearchPatternsError: the unmatched
\* relative patterns in insertion order, mapped back to absolute patterns
UnmatchedInOrder(walk) ==
    LET firstAt(i) == \A j \in 1..(i - 1) : walk.matchers[j] # walk.matchers[i]
        keyIndexes == { i \in 1..Len(walk.matchers) :
                           firstAt(i) /\ walk.matchers[i] \in walk.unmatchedPatterns }
        lastWith(i) == CHOOSE j \in 1..Len(walk.matchers) :
                           /\ walk.matchers[j] = walk.matchers[i]
                           /\ \A k \in (j + 1)..Len(walk.matchers) :
                                  walk.matchers[k] # walk.matchers[i]
        nth(n) == CHOOSE i \in keyIndexes :
                      Cardinality({ k \in keyIndexes : k < i }) = n - 1
    IN  [n \in 1..Cardinality(keyIndexes) |-> walk.patterns[lastWith(nth(n))]]

(***************************************************************************)
(* globMatch: the second walk, for one pattern, without the provider.      *)
(***************************************************************************)
RECURSIVE globMatchWalk(_, _, _)
\* hfs.walk(basePath, walkSettings).next().then(() => found): true as soon
\* as one file entry matches, false when the walk ends without one
globMatchWalk(basePath, patternToUse, todo) ==
    IF todo = <<>> THEN FALSE
    ELSE LET entry == Head(todo)
         IN  IF ~ entry.isDirectory
             THEN \/ Match(patternToUse, entry.path, FALSE)
                  \/ globMatchWalk(basePath, patternToUse, Tail(todo))
             ELSE IF Match(patternToUse, entry.path, TRUE)
             THEN globMatchWalk(basePath, patternToUse,
                      Entries(basePath, entry.path) \o Tail(todo))
             ELSE globMatchWalk(basePath, patternToUse, Tail(todo))

\* globMatch({ basePath, pattern })
globMatch(basePath, pattern) ==
    globMatchWalk(basePath, normalizeToPosix(Relative(basePath, pattern)),
                  WalkStart(basePath))

\* patterns.indexOf(pattern)
IndexOf(seq, x) == CHOOSE i \in 1..Len(seq) :
                       seq[i] = x /\ \A j \in 1..(i - 1) : seq[j] # x
\* the two errors of throwErrorForUnmatchedPatterns, exchanged
UnmatchedErrorSwapped(search, unmatched) ==
    LET pattern == unmatched[1]
        rawPattern == search.rawPatterns[IndexOf(search.patterns, pattern)]
    IN  IF globMatch(search.basePath, pattern)
        THEN NoFilesFoundError(rawPattern, TRUE)
        ELSE AllFilesIgnoredError(rawPattern)

\* the error throwErrorForUnmatchedPatterns throws
UnmatchedError(search, unmatched) ==
    LET pattern == unmatched[1]
        rawPattern == search.rawPatterns[IndexOf(search.patterns, pattern)]
    IN  IF globMatch(search.basePath, pattern)
        THEN AllFilesIgnoredError(rawPattern)
        ELSE NoFilesFoundError(rawPattern, TRUE)

(***************************************************************************)
(* globMultiSearch and the end of findFiles.                               *)
(***************************************************************************)
\* [...searches].map(...).filter(({ patterns }) => patterns.length > 0)
NormalizedSearches(map) == SelectSeq(map, LAMBDA s : Len(s.patterns) > 0)

\* an error loop that takes every rejection for an unmatched-patterns error
UnexpectedNever(result) == FALSE

\* !error.basePath: the rejection is not an UnmatchedSearchPatternsError
Unexpected(result) == result.reason.kind # "UnmatchedSearchPatternsError"

\* the results at which the error loop of globMultiSearch throws: a rejected
\* result whose error is unexpected, or any rejected result when
\* errorOnUnmatchedPattern is set
Throwing(settled) ==
    { i \in 1..Len(settled) :
          /\ settled[i].status = "rejected"
          /\ (Unexpected(settled[i]) \/ errorOnUnmatchedPattern) }
\* an error loop that keeps the last rejected result
FirstRejectedLast(settled) ==
    IF Throwing(settled) # {}
    THEN CHOOSE i \in Throwing(settled) :
             \A j \in Throwing(settled) : j <= i
    ELSE 0

\* the index the error loop of globMultiSearch stops at: the first rejected
\* result it throws for, 0 when it runs to its end
FirstRejected(settled) ==
    IF Throwing(settled) # {}
    THEN CHOOSE i \in Throwing(settled) :
             \A j \in Throwing(settled) : i <= j
    ELSE 0

\* result.value of a rejected result
UndefinedValue == <<"undefined">>
\* a merge of the searches that keeps the first result only
FlatMapFirst(settled) ==
    IF settled = <<>> THEN <<>> ELSE Head(settled).filePaths

RECURSIVE FlatMap(_)
\* results.flatMap(result => result.value)
FlatMap(settled) ==
    IF settled = <<>> THEN <<>>
    ELSE (IF Head(settled).status = "rejected" THEN <<UndefinedValue>>
          ELSE Head(settled).filePaths) \o FlatMap(Tail(settled))

RECURSIVE Unique(_, _)
\* [...new Set(list)]: first occurrences, in order
Unique(seen, list) ==
    IF list = <<>> THEN <<>>
    ELSE IF Head(list) \in seen THEN Unique(seen, Tail(list))
    ELSE <<Head(list)>> \o Unique(seen \cup {Head(list)}, Tail(list))
\* a merge that only concatenates
MergeResultsNoSet(literal, globbyResults) == literal \o globbyResults

\* [...new Set([...results, ...globbyResults])]
MergeResults(literal, globbyResults) == Unique({}, literal \o globbyResults)

(***************************************************************************)
(* The state machine.                                                      *)
(***************************************************************************)
Init ==
    /\ patterns \in PatternLists
    /\ globInputPaths \in BOOLEAN
    /\ errorOnUnmatchedPattern \in BOOLEAN
    /\ ignoredDirectories \in IgnoredChoices
    /\ configuredFiles \in ConfiguredChoices
    /\ brokenFiles \in IF configuredFiles = FileEntries
                           /\ ignoredDirectories = {}
                        THEN BrokenChoices ELSE { {} }
    /\ pc = "start"
    /\ results = <<>>
    /\ missingPatterns = <<>>
    /\ searches = <<>>
    /\ walks = <<>>
    /\ providerCalls = {}
    /\ firstSettled = 0
    /\ failing = 0
    /\ outcome = NoOutcome

\* findFiles: the stats and stats.forEach
FindFilesClassify ==
    /\ pc = "start"
    /\ LET c == Classify(patterns, globInputPaths)
       IN  /\ results' = c.results
           /\ missingPatterns' = c.missingPatterns
           /\ searches' = c.searches
    /\ pc' = "classified"
    /\ UNCHANGED << inputs, walks, providerCalls, firstSettled, failing, outcome >>
\* a missing-pattern check that forgets the option
ThrowsForMissingAlways(missing, errorOnUnmatched) == Len(missing) > 0

\* whether findFiles throws for a missing pattern
ThrowsForMissing(missing, errorOnUnmatched) ==
    errorOnUnmatched /\ Len(missing) > 0
\* an error for a missing pattern that always says globs were enabled
MissingErrorGlobEnabled(missing, globEnabled) ==
    NoFilesFoundError(missing[1], TRUE)

\* new NoFilesFoundError(missingPatterns[0], globInputPaths)
MissingError(missing, globEnabled) ==
    NoFilesFoundError(missing[1], globEnabled)

\* findFiles: throw new NoFilesFoundError(missingPatterns[0], globInputPaths)
FindFilesMissing ==
    /\ pc = "classified"
    /\ ThrowsForMissing(missingPatterns, errorOnUnmatchedPattern)
    /\ outcome' = MissingError(missingPatterns, globInputPaths)
    /\ pc' = "done"
    /\ UNCHANGED << inputs, results, missingPatterns, searches, walks,
                    providerCalls, firstSettled, failing >>

\* globMultiSearch: every globSearch is started
GlobMultiSearchLaunch ==
    /\ pc = "classified"
    /\ ~ ThrowsForMissing(missingPatterns, errorOnUnmatchedPattern)
    /\ LET normalizedSearches == NormalizedSearches(searches)
       IN  walks' = [i \in 1..Len(normalizedSearches) |->
                        globSearchStart(normalizedSearches[i])]
    /\ pc' = "searching"
    /\ UNCHANGED << inputs, results, missingPatterns, searches, providerCalls,
                    firstSettled, failing, outcome >>

\* a walk that descends into every directory it meets
DescendAlways(walk, entry, d) ==
    IF entry.isDirectory
    THEN Entries(walk.basePath, entry.path) \o Tail(walk.todo)
    ELSE Tail(walk.todo)

\* the entries the walk has still to visit after this one: the children of
\* a directory the directoryFilter accepted come first
Descend(walk, entry, d) ==
    IF d.descend
    THEN Entries(walk.basePath, entry.path) \o Tail(walk.todo)
    ELSE Tail(walk.todo)

\* one entry of the walk of search i: entryFilter, the push of an emitted
\* entry, then directoryFilter and the descent
WalkStep(i) ==
    /\ pc = "searching"
    /\ walks[i].status = "running"
    /\ walks[i].todo # <<>>
    /\ LET walk == walks[i]
           entry == Head(walk.todo)
           e == entryFilter(walk, entry)
           d == IF entry.isDirectory THEN directoryFilter(walk, entry)
                ELSE [descend |-> FALSE, asked |-> {}]
       IN  /\ walks' = [walks EXCEPT ![i] =
                  IF e.throws
                  THEN [walk EXCEPT
                           !.status = "rejected",
                           !.reason = ProviderError(
                                          Resolve(walk.basePath, entry.path))]
                  ELSE [walk EXCEPT
                           !.unmatchedPatterns = e.unmatchedPatterns,
                           !.filePaths =
                               IF e.emit
                               THEN Append(@, EmittedPath(walk, entry))
                               ELSE @,
                           !.todo = Descend(walk, entry, d)]]
           /\ providerCalls' = providerCalls \cup
                  { [search |-> i, op |-> c.op, path |-> c.path] :
                        c \in e.asked \cup (IF e.throws THEN {} ELSE d.asked) }
           /\ firstSettled' = IF e.throws /\ firstSettled = 0
                               THEN i ELSE firstSettled
    /\ UNCHANGED << inputs, pc, results, missingPatterns, searches,
                    failing, outcome >>

\* a search that throws for its unmatched patterns whatever the flag says
ThrowsUnmatchedAlways(walk, errorOnUnmatched) == walk.unmatchedPatterns # {}

\* whether globSearch throws UnmatchedSearchPatternsError after its walk
ThrowsUnmatched(walk, errorOnUnmatched) ==
    errorOnUnmatched /\ walk.unmatchedPatterns # {}

\* the walk of search i is over: globSearch returns filePaths or throws
WalkFinish(i) ==
    /\ pc = "searching"
    /\ walks[i].status = "running"
    /\ walks[i].todo = <<>>
    /\ walks' = [walks EXCEPT ![i] =
                    IF ThrowsUnmatched(walks[i], errorOnUnmatchedPattern)
                    THEN [@ EXCEPT !.status = "rejected",
                                   !.reason = UnmatchedSearchPatternsError]
                    ELSE [@ EXCEPT !.status = "fulfilled"]]
    /\ firstSettled' = IF firstSettled = 0 THEN i ELSE firstSettled
    /\ UNCHANGED << inputs, pc, results, missingPatterns, searches,
                    providerCalls, failing, outcome >>

AllSettled == \A i \in 1..Len(walks) : walks[i].status # "running"

\* globMultiSearch: the error loop reaches an unexpected error and throws
\* it again
GlobMultiSearchRethrow ==
    /\ pc = "searching"
    /\ AllSettled
    /\ FirstRejected(walks) # 0
    /\ Unexpected(walks[FirstRejected(walks)])
    /\ outcome' = walks[FirstRejected(walks)].reason
    /\ pc' = "done"
    /\ UNCHANGED << inputs, results, missingPatterns, searches, walks,
                    providerCalls, firstSettled, failing >>

\* globMultiSearch: the error loop reaches a rejected result that carries a
\* basePath while errorOnUnmatchedPattern is set
GlobMultiSearchRejected ==
    /\ pc = "searching"
    /\ AllSettled
    /\ FirstRejected(walks) # 0
    /\ ~Unexpected(walks[FirstRejected(walks)])
    /\ failing' = FirstRejected(walks)
    /\ pc' = "unmatched"
    /\ UNCHANGED << inputs, results, missingPatterns, searches, walks,
                    providerCalls, firstSettled, outcome >>

\* throwErrorForUnmatchedPatterns({ ...currentSearch, unmatchedPatterns })
throwErrorForUnmatchedPatterns ==
    /\ pc = "unmatched"
    /\ outcome' = UnmatchedError(walks[failing], UnmatchedInOrder(walks[failing]))
    /\ pc' = "done"
    /\ UNCHANGED << inputs, results, missingPatterns, searches, walks,
                    providerCalls, firstSettled, failing >>

\* globMultiSearch returns and findFiles returns the merged list
FindFilesReturn ==
    /\ pc = "searching"
    /\ AllSettled
    /\ FirstRejected(walks) = 0
    /\ outcome' = Returned(MergeResults(results, FlatMap(walks)))
    /\ pc' = "done"
    /\ UNCHANGED << inputs, results, missingPatterns, searches, walks,
                    providerCalls, firstSettled, failing >>

Next ==
    \/ FindFilesClassify
    \/ FindFilesMissing
    \/ GlobMultiSearchLaunch
    \/ \E i \in 1..Len(walks) : WalkStep(i)
    \/ \E i \in 1..Len(walks) : WalkFinish(i)
    \/ GlobMultiSearchRethrow
    \/ GlobMultiSearchRejected
    \/ throwErrorForUnmatchedPatterns
    \/ FindFilesReturn

Spec == Init /\ [][Next]_vars

\* the calls whose patterns may hold backslashes
InitTyped ==
    /\ patterns \in TypedLists
    /\ globInputPaths \in BOOLEAN
    /\ errorOnUnmatchedPattern \in BOOLEAN
    /\ ignoredDirectories \in IgnoredChoices
    /\ configuredFiles \in ConfiguredChoices
    /\ brokenFiles \in IF configuredFiles = FileEntries
                           /\ ignoredDirectories = {}
                        THEN BrokenChoices ELSE { {} }
    /\ pc = "start"
    /\ results = <<>>
    /\ missingPatterns = <<>>
    /\ searches = <<>>
    /\ walks = <<>>
    /\ providerCalls = {}
    /\ firstSettled = 0
    /\ failing = 0
    /\ outcome = NoOutcome

SpecTyped == InitTyped /\ [][Next]_vars

(***************************************************************************)
(* Vocabulary of the properties.                                           *)
(***************************************************************************)
IsPrefix(a, b) == Len(a) <= Len(b) /\ SubSeq(b, 1, Len(a)) = a

IsProperPrefix(a, b) == Len(a) < Len(b) /\ IsPrefix(a, b)

\* the proper ancestor directories of a path
Ancestors(path) == { SubSeq(path, 1, n) : n \in 1..(Len(path) - 1) }

\* the directories strictly between a base path and a path below it
Between(basePath, path) ==
    { d \in Ancestors(path) : IsProperPrefix(basePath, d) }

\* an input pattern as an absolute pattern: a directory stands for all it
\* contains
AbsolutePattern(pattern) ==
    LET filePath == Resolve(cwd, pattern)
    IN  IF Stat(filePath) = "directory" THEN filePath \o <<GLOBSTAR>>
        ELSE filePath

\* the input pattern matches the absolute path
InputMatches(pattern, path) == Match(AbsolutePattern(pattern), path, FALSE)

\* the input pattern names a regular file
NamesFile(pattern) == Stat(Resolve(cwd, pattern)) = "file"

\* the input pattern names a directory
NamesDirectory(pattern) == Stat(Resolve(cwd, pattern)) = "directory"

\* the input pattern is classified as missing
IsMissing(pattern) ==
    /\ Stat(Resolve(cwd, pattern)) = "none"
    /\ ~ (globInputPaths /\ isGlobPattern(pattern))

PatternIndexes == 1..Len(patterns)

ReturnedFiles == Range(outcome.files)

\* position of the first occurrence of x in seq
FirstIndex(seq, x) ==
    CHOOSE i \in 1..Len(seq) : seq[i] = x /\ \A j \in 1..(i - 1) : seq[j] # x

Concatenated == results \o FlatMap(walks)

\* C2: the returned list holds no path twice, holds exactly the paths of
\* the literal files and of the searches, and lists them in the order of
\* their first occurrence (literal files first, then the searches in
\* launch order).
C2_NoDuplicates ==
    outcome.kind = "files" =>
        /\ \A k, l \in 1..Len(outcome.files) :
               outcome.files[k] = outcome.files[l] => k = l
        /\ ReturnedFiles = Range(Concatenated)
        /\ \A k, l \in 1..Len(outcome.files) :
               k < l => FirstIndex(Concatenated, outcome.files[k])
                          < FirstIndex(Concatenated, outcome.files[l])

\* a file named literally was also found by a walk, and returned once
C2_Witness ==
    /\ outcome.kind = "files"
    /\ \E path \in Range(results) :
           \E i \in 1..Len(walks) : path \in Range(walks[i].filePaths)

(***************************************************************************)
(* C3.                                                                     *)
(***************************************************************************)
\* C3: with errorOnUnmatchedPattern false, findFiles ends by returning a
\* list, whatever is missing or unmatched, unless the provider failed: the
\* only failure possible is the provider's error.
C3_NoDiscoveryError ==
    (pc = "done" /\ ~ errorOnUnmatchedPattern) =>
        outcome.kind \in {"files", "ProviderError"}

\* a call without the option returned although a pattern was missing and a
\* search ended with unmatched patterns
C3_Witness ==
    /\ pc = "done"
    /\ ~ errorOnUnmatchedPattern
    /\ missingPatterns # <<>>
    /\ \E i \in 1..Len(walks) : walks[i].unmatchedPatterns # {}

(***************************************************************************)
(* C4.                                                                     *)
(***************************************************************************)
\* C4: no search asks the provider whether its base path, or an ancestor
\* of it, is ignored; and for a directory passed literally every
\* configured file below it that no ignored directory separates from it is
\* returned.
C4_BaseNeverPruned ==
    /\ \A call \in providerCalls :
           call.op = "isDirectoryIgnored"
               => ~ IsPrefix(call.path, walks[call.search].basePath)
    /\ outcome.kind = "files" =>
           \A i \in PatternIndexes :
               NamesDirectory(patterns[i]) =>
                   \A path \in FileEntries :
                       ( /\ IsProperPrefix(Resolve(cwd, patterns[i]), path)
                         /\ getConfig(path)
                         /\ Between(Resolve(cwd, patterns[i]), path)
                                \cap ignoredDirectories = {} )
                           => path \in ReturnedFiles

\* a directory the provider ignores was passed literally and a file below
\* it was returned
C4_Witness ==
    /\ outcome.kind = "files"
    /\ \E i \in PatternIndexes :
           /\ NamesDirectory(patterns[i])
           /\ Resolve(cwd, patterns[i]) \in ignoredDirectories
           /\ \E path \in ReturnedFiles :
                  IsProperPrefix(Resolve(cwd, patterns[i]), path)

(***************************************************************************)
(* C5.                                                                     *)
(***************************************************************************)
\* C5 as stated: a file a search emits has no ignored ancestor directory
\* other than the base path of the search.
C5_AsStated ==
    \A i \in 1..Len(walks) :
        \A path \in Range(walks[i].filePaths) :
            \A d \in Ancestors(path) :
                d \in ignoredDirectories => d = walks[i].basePath

\* C5 amended: a file a search emits has no ignored directory strictly
\* between the base path of the search and the file; the base path and its
\* own ancestors may be ignored.
C5_NoIgnoredBetween ==
    \A i \in 1..Len(walks) :
        \A path \in Range(walks[i].filePaths) :
            Between(walks[i].basePath, path) \cap ignoredDirectories = {}

\* a search is over that emitted a file, and left out a configured file
\* its pattern matches because a directory below the base path is ignored
C5_Witness ==
    \E i \in 1..Len(walks) :
        /\ walks[i].status = "fulfilled"
        /\ walks[i].filePaths # <<>>
        /\ \E path \in FileEntries :
               /\ IsProperPrefix(walks[i].basePath, path)
               /\ getConfig(path)
               /\ \E k \in 1..Len(walks[i].matchers) :
                      Match(walks[i].matchers[k],
                            Relative(walks[i].basePath, path), FALSE)
               /\ Between(walks[i].basePath, path) \cap ignoredDirectories # {}
               /\ path \notin Range(walks[i].filePaths)

(***************************************************************************)
(* C6.                                                                     *)
(***************************************************************************)
\* the call of the scenario: the one pattern b/**/*.js, globs enabled,
\* errors wanted, the provider ignores /r/b and configures /r/b/z.js
C6_Scenario ==
    /\ patterns = << <<"b", "**", "*.js">> >>
    /\ globInputPaths
    /\ errorOnUnmatchedPattern
    /\ cwd \o <<"b">> \in ignoredDirectories
    /\ getConfig(cwd \o <<"b", "z.js">>)
    /\ pc = "done"

\* C6 as stated: the call of the scenario fails with AllFilesIgnoredError
\* carrying the raw pattern.
C6_AsStated ==
    C6_Scenario => outcome = AllFilesIgnoredError(<<"b", "**", "*.js">>)

\* C6 amended: the call of the scenario returns the configured file below
\* the ignored directory, which is the base path of the search.
C6_PrefixIsBase ==
    C6_Scenario => outcome = Returned(<< cwd \o <<"b", "z.js">> >>)

\* the call of the scenario is over and its search ran at /r/b
C6_Witness ==
    /\ C6_Scenario
    /\ Len(walks) = 1
    /\ walks[1].basePath = cwd \o <<"b">>

(***************************************************************************)
(* C7.                                                                     *)
(***************************************************************************)
\* index of the first pattern of a search still in its unmatched set
FirstUnmatched(walk) ==
    CHOOSE k \in 1..Len(walk.matchers) :
        /\ walk.matchers[k] \in walk.unmatchedPatterns
        /\ \A j \in 1..(k - 1) : walk.matchers[j] \notin walk.unmatchedPatterns

\* some file below the base path matches the relative pattern, and every
\* directory on the way to it prefix-matches the pattern
HasReachableMatch(basePath, patternToUse) ==
    \E path \in FileEntries :
        /\ IsProperPrefix(basePath, path)
        /\ Match(patternToUse, Relative(basePath, path), FALSE)
        /\ \A d \in Between(basePath, path) :
               Match(patternToUse, Relative(basePath, d), TRUE)

\* the error of the reconciler for the rejected search
C7_Error ==
    (pc = "done" /\ failing # 0) =>
        LET walk == walks[failing]
            k == FirstUnmatched(walk)
        IN  outcome =
                IF HasReachableMatch(walk.basePath, walk.matchers[k])
                THEN AllFilesIgnoredError(walk.rawPatterns[k])
                ELSE NoFilesFoundError(walk.rawPatterns[k], TRUE)

\* C7: the reconciler always raises for the first unmatched pattern of the
\* rejected search: AllFilesIgnoredError with its raw pattern iff a file
\* below the base path matches it, NoFilesFoundError with its raw pattern
\* and globEnabled true otherwise; and it makes no call to the provider.
C7_Reconciler ==
    /\ [] C7_Error
    /\ [][pc = "unmatched" => (providerCalls' = providerCalls /\ pc' = "done")]_vars

\* the reconciler raised AllFilesIgnoredError for a search that ended with
\* more than one unmatched pattern
C7_Witness ==
    /\ pc = "done"
    /\ failing # 0
    /\ outcome.kind = "AllFilesIgnoredError"
    /\ Cardinality(walks[failing].unmatchedPatterns) > 1

(***************************************************************************)
(* C8.                                                                     *)
(***************************************************************************)
\* index of the first input pattern classified as missing
FirstMissing ==
    CHOOSE i \in PatternIndexes :
        IsMissing(patterns[i]) /\ \A j \in 1..(i - 1) : ~ IsMissing(patterns[j])

\* C8: with errorOnUnmatchedPattern true and a missing pattern, findFiles
\* fails with NoFilesFoundError for the first missing pattern and
\* globEnabled = globInputPaths, no search was started and the provider was
\* never called.
C8_MissingFirst ==
    ( /\ pc \notin {"start", "classified"}
      /\ errorOnUnmatchedPattern
      /\ \E i \in PatternIndexes : IsMissing(patterns[i]) )
        => /\ pc = "done"
           /\ outcome = NoFilesFoundError(patterns[FirstMissing], globInputPaths)
           /\ walks = <<>>
           /\ providerCalls = {}

\* the call failed for a missing pattern with globs disabled although an
\* earlier pattern names a directory
C8_Witness ==
    /\ pc = "done"
    /\ outcome.kind = "NoFilesFoundError"
    /\ ~ globInputPaths
    /\ Len(patterns) > 1
    /\ NamesDirectory(patterns[1])
    /\ IsMissing(patterns[2])

(***************************************************************************)
(* C9.                                                                     *)
(***************************************************************************)
\* the input pattern is handed to a search
IsSearched(pattern) ==
    \/ NamesDirectory(pattern)
    \/ /\ Stat(Resolve(cwd, pattern)) = "none"
       /\ globInputPaths
       /\ isGlobPattern(pattern)

\* the leading segments of a pattern before its first glob segment
StaticPrefix(pattern) ==
    SubSeq(pattern, 1,
           Cardinality({ i \in 1..Len(pattern) :
                           \A j \in 1..i : ~ IsGlobSegment(pattern[j]) }))

\* the base path of the search a pattern belongs to
SearchBase(pattern) ==
    IF NamesDirectory(pattern) THEN Resolve(cwd, pattern)
    ELSE Resolve(cwd, StaticPrefix(pattern))

\* index of the first input pattern searched under the base path
FirstUse(basePath) ==
    CHOOSE i \in PatternIndexes :
        /\ IsSearched(patterns[i]) /\ SearchBase(patterns[i]) = basePath
        /\ \A j \in 1..(i - 1) :
               ~ (IsSearched(patterns[j]) /\ SearchBase(patterns[j]) = basePath)

\* index of the first pattern of a search that none of the emitted files
\* matches
FirstWithoutFile(walk) ==
    CHOOSE k \in 1..Len(walk.matchers) :
        LET matched(j) ==
                \E path \in Range(walk.filePaths) :
                    Match(walk.matchers[j], Relative(walk.basePath, path), FALSE)
        IN  ~ matched(k) /\ \A j \in 1..(k - 1) : matched(j)

\* C9: the searches are launched in insertion order with the cwd search
\* first, and the error raised is the one of the first rejected search in
\* that order, for its first pattern without a file.
C9_FirstFailure ==
    /\ \A i, j \in 1..Len(walks) :
           i < j => /\ walks[j].basePath # cwd
                    /\ \/ walks[i].basePath = cwd
                       \/ FirstUse(walks[i].basePath) < FirstUse(walks[j].basePath)
    /\ (pc = "done" /\ failing # 0) =>
           /\ walks[failing].status = "rejected"
           /\ \A j \in 1..(failing - 1) : walks[j].status = "fulfilled"
           /\ outcome.pattern =
                  walks[failing].rawPatterns[FirstWithoutFile(walks[failing])]

\* two searches were rejected, the later one settled first, and the error
\* is the one of the earlier one
C9_Witness ==
    /\ pc = "done"
    /\ failing # 0
    /\ firstSettled # failing
    /\ walks[firstSettled].status = "rejected"
    /\ walks[failing].basePath # cwd

(***************************************************************************)
(* C10.                                                                    *)
(***************************************************************************)
\* C10: once the patterns are classified, a pattern naming a regular file
\* has its path in results and in no search; the path is in the returned
\* list; and a call with only such patterns starts no search and never
\* calls the provider.
C10_LiteralFile ==
    pc # "start" =>
        /\ \A i \in PatternIndexes :
               NamesFile(patterns[i]) =>
                   /\ Resolve(cwd, patterns[i]) \in Range(results)
                   /\ \A k \in 1..Len(searches) :
                          Resolve(cwd, patterns[i]) \notin Range(searches[k].patterns)
                   /\ outcome.kind = "files"
                          => Resolve(cwd, patterns[i]) \in ReturnedFiles
        /\ (\A i \in PatternIndexes : NamesFile(patterns[i]))
               => (walks = <<>> /\ providerCalls = {})

\* a file without configuration, in an ignored directory, was named
\* literally and returned
C10_Witness ==
    /\ outcome.kind = "files"
    /\ patterns # <<>>
    /\ \A i \in PatternIndexes :
           /\ NamesFile(patterns[i])
           /\ ~ getConfig(Resolve(cwd, patterns[i]))
           /\ Ancestors(Resolve(cwd, patterns[i])) \cap ignoredDirectories # {}
           /\ Resolve(cwd, patterns[i]) \in ReturnedFiles

(***************************************************************************)
(* C11.                                                                    *)
(***************************************************************************)
\* the call has one pattern, and it names a directory
SingleDirectory == Len(patterns) = 1 /\ NamesDirectory(patterns[1])

\* the entries below a directory that are not directories themselves
EntriesBelow(dir) == { path \in FileEntries : IsProperPrefix(dir, path) }

\* C11 as stated: for a single literal directory, the returned list is not
\* empty iff the directory contains, at any depth, an entry the provider
\* has a configuration for.
C11_AsStated ==
    (SingleDirectory /\ outcome.kind = "files") =>
        ( outcome.files # <<>>
            <=> \E path \in EntriesBelow(Resolve(cwd, patterns[1])) :
                    getConfig(path) )

\* C11 amended: for a single literal directory, the returned list is not
\* empty iff the directory contains a configured entry that no ignored
\* directory strictly inside the directory separates from it; whether the
\* directory itself or a parent of it is ignored does not matter.
C11_LiteralDirectory ==
    (SingleDirectory /\ pc = "done" /\ outcome.kind # "ProviderError") =>
        ( (outcome.kind = "files" /\ outcome.files # <<>>)
            <=> \E path \in EntriesBelow(Resolve(cwd, patterns[1])) :
                    /\ getConfig(path)
                    /\ Between(Resolve(cwd, patterns[1]), path)
                           \cap ignoredDirectories = {} )

\* a single literal directory that is ignored, below an ignored parent,
\* yielded a file
C11_Witness ==
    /\ SingleDirectory
    /\ outcome.kind = "files"
    /\ outcome.files # <<>>
    /\ Resolve(cwd, patterns[1]) \in ignoredDirectories
    /\ Ancestors(Resolve(cwd, patterns[1])) \cap ignoredDirectories # {}

(***************************************************************************)
(* C12.                                                                    *)
(***************************************************************************)
\* what one input pattern contributes, whatever its place in the list: the
\* file it names, or the configured entries below its base path that it
\* matches and that no ignored directory separates from the base path
ExpectedFrom(pattern) ==
    IF NamesFile(pattern) THEN { Resolve(cwd, pattern) }
    ELSE IF IsSearched(pattern)
    THEN { path \in FileEntries :
             /\ IsProperPrefix(SearchBase(pattern), path)
             /\ InputMatches(pattern, path)
             /\ getConfig(path)
             /\ Between(SearchBase(pattern), path) \cap ignoredDirectories = {} }
    ELSE {}

\* C12: the set of returned paths is the union of what each pattern of the
\* list contributes, so it depends on the set of patterns only and every
\* permutation of the list returns the same set.
C12_OrderIndependent ==
    outcome.kind = "files" =>
        ReturnedFiles = UNION { ExpectedFrom(q) : q \in Range(patterns) }

\* a call with two patterns of different searches returned, each pattern
\* contributing a path the other does not
C12_Witness ==
    /\ outcome.kind = "files"
    /\ Len(patterns) = 2
    /\ Len(walks) = 2
    /\ ExpectedFrom(patterns[1]) \ ExpectedFrom(patterns[2]) # {}
    /\ ExpectedFrom(patterns[2]) \ ExpectedFrom(patterns[1]) # {}

(***************************************************************************)
(* C13.                                                                    *)
(***************************************************************************)
\* the classification of a second call whose patterns are the paths the
\* first call returned
FedBack == Classify(outcome.files, globInputPaths)

\* C13 as stated: fed back as patterns, every returned path is classified
\* as a literal file, no search is created and nothing is missing, so the
\* second call returns the same set of paths.
C13_AsStated ==
    outcome.kind = "files" =>
        /\ FedBack.results = outcome.files
        /\ NormalizedSearches(FedBack.searches) = <<>>
        /\ FedBack.missingPatterns = <<>>
        /\ Range(MergeResults(FedBack.results, <<>>)) = ReturnedFiles

(***************************************************************************)
(* C14.                                                                    *)
(***************************************************************************)
\* the configured entries the walk of the working directory can reach
ReachableFromCwd ==
    { path \in EntriesBelow(cwd) :
        getConfig(path) /\ Between(cwd, path) \cap ignoredDirectories = {} }

\* the entries that are direct children of the working directory
TopLevel == { path \in FileEntries : Len(path) = Len(cwd) + 1 }

\* C14: the pattern "." is searched as "**" under cwd and returns the
\* configured entries the walk reaches at every depth; the pattern "*" is
\* searched under cwd too and returns the configured direct children of cwd
\* only.
C14_DotAndStar ==
    /\ (patterns = << <<".">> >> /\ pc \notin {"start", "classified"}) =>
           /\ Len(walks) = 1
           /\ walks[1].basePath = cwd
           /\ walks[1].matchers = << <<GLOBSTAR>> >>
           /\ outcome.kind = "files" => ReturnedFiles = ReachableFromCwd
    /\ (patterns = << <<"*">> >> /\ globInputPaths
           /\ pc \notin {"start", "classified"}) =>
           /\ Len(walks) = 1
           /\ walks[1].basePath = cwd
           /\ walks[1].matchers = << <<"*">> >>
           /\ outcome.kind = "files" =>
                  ReturnedFiles = { path \in TopLevel : getConfig(path) }

\* the pattern "*" returned a direct child of cwd and left out a configured
\* entry two levels down that the walk of "." reaches
C14_Witness ==
    /\ patterns = << <<"*">> >>
    /\ outcome.kind = "files"
    /\ outcome.files # <<>>
    /\ \E path \in ReachableFromCwd :
           Len(path) > Len(cwd) + 2 /\ path \notin ReturnedFiles

(***************************************************************************)
(* C15.                                                                    *)
(***************************************************************************)
\* a search was rejected for its unmatched patterns
RejectedUnmatched(i) ==
    /\ walks[i].status = "rejected"
    /\ walks[i].reason = UnmatchedSearchPatternsError

\* C15: UnmatchedSearchPatternsError never reaches the caller: a search is
\* rejected with it only when errorOnUnmatchedPattern is set, and a call
\* that ends with such a search ends with NoFilesFoundError,
\* AllFilesIgnoredError or the provider's error, never with the internal
\* error and never with a list holding the value of a rejected result.
C15_NeverSurfaces ==
    /\ outcome.kind # "UnmatchedSearchPatternsError"
    /\ UndefinedValue \notin Range(outcome.files)
    /\ \A i \in 1..Len(walks) :
           RejectedUnmatched(i) =>
               /\ errorOnUnmatchedPattern
               /\ pc = "done" =>
                      outcome.kind \in {"NoFilesFoundError",
                                        "AllFilesIgnoredError",
                                        "ProviderError"}

\* a call ended with a discovery error although one search was rejected for
\* its unmatched patterns and another returned files
C15_Witness ==
    /\ pc = "done"
    /\ outcome.kind \in {"NoFilesFoundError", "AllFilesIgnoredError"}
    /\ \E i \in 1..Len(walks) : RejectedUnmatched(i)
    /\ \E i \in 1..Len(walks) :
           walks[i].status = "fulfilled" /\ walks[i].filePaths # <<>>

(***************************************************************************)
(* C16.                                                                    *)
(***************************************************************************)
\* the walk of search i failed with the provider's error
RejectedBySystem(i) ==
    /\ walks[i].status = "rejected"
    /\ walks[i].reason.kind = "ProviderError"

\* the first search, in launch order, that was rejected
EarliestRejected ==
    CHOOSE k \in 1..Len(walks) :
        /\ walks[k].status = "rejected"
        /\ \A j \in 1..(k - 1) : walks[j].status # "rejected"

\* C16 as stated: when a walk failed with the provider's error, the call
\* fails with that error, whatever the outcomes of the other searches.
C16_AsStated ==
    \A i \in 1..Len(walks) :
        (pc = "done" /\ RejectedBySystem(i)) => outcome = walks[i].reason

\* C16: when a walk failed with the provider's error, the call never
\* returns a list; it fails with the error of the first rejected search in
\* launch order: that error itself, unchanged, when it is the provider's,
\* and the discovery error it is converted to when it is an
\* unmatched-patterns error.
C16_FirstRejectedDecides ==
    (pc = "done" /\ \E i \in 1..Len(walks) : RejectedBySystem(i)) =>
        /\ outcome.kind # "files"
        /\ IF RejectedBySystem(EarliestRejected)
           THEN outcome = walks[EarliestRejected].reason
           ELSE outcome.kind \in {"NoFilesFoundError", "AllFilesIgnoredError"}

\* a call failed with the provider's error of its first rejected search
\* although a later search was rejected for its unmatched patterns
C16_Witness ==
    /\ pc = "done"
    /\ outcome.kind = "ProviderError"
    /\ outcome.pattern \in brokenFiles
    /\ \E i, j \in 1..Len(walks) :
           i < j /\ RejectedBySystem(i) /\ RejectedUnmatched(j)

(***************************************************************************)
(* C17.                                                                    *)
(***************************************************************************)
RECURSIVE SearchedPatterns(_)
\* the number of patterns held by the searches
SearchedPatterns(map) ==
    IF map = <<>> THEN 0
    ELSE Len(Head(map).patterns) + SearchedPatterns(Tail(map))

\* the pattern is classified as a glob: its stat fails, glob input is
\* enabled and it holds glob metacharacters
IsGlobInput(pattern) ==
    /\ Stat(Resolve(cwd, pattern)) = "none"
    /\ globInputPaths
    /\ isGlobPattern(pattern)

\* C17 as stated: after classification every pattern is in exactly one
\* class, so the three collections hold as many items as there are
\* patterns, and a pattern that is not a regular file, not a directory and
\* not a glob is recorded in missingPatterns.
C17_AsStated ==
    pc # "start" =>
        /\ Len(results) + SearchedPatterns(searches) + Len(missingPatterns)
               = Len(patterns)
        /\ \A k \in 1..Len(patterns) :
               ( /\ ~ NamesFile(patterns[k])
                 /\ ~ NamesDirectory(patterns[k])
                 /\ ~ IsGlobInput(patterns[k]) )
                   => patterns[k] \in Range(missingPatterns)

(***************************************************************************)
(* C18.                                                                    *)
(***************************************************************************)
\* some matcher of the walk matches the relative path in full
SomeMatcherMatches(walk, relativePath) ==
    \E m \in Range(walk.matchers) : Match(m, relativePath, FALSE)

\* the emission rule for the entry at the head of walk i in a step that
\* visits it: unless the provider fails, the entry is appended to filePaths
\* exactly when it is not a directory, some matcher matches it and it has a
\* configuration, and filePaths is unchanged otherwise
EmitRule(i) ==
    LET walk == walks[i]
        entry == Head(walk.todo)
        absolutePath == Resolve(walk.basePath, entry.path)
        due == /\ ~ entry.isDirectory
               /\ SomeMatcherMatches(walk, entry.path)
               /\ getConfig(absolutePath)
    IN  IF walks'[i].status = "rejected"
        THEN walks'[i].filePaths = walk.filePaths
        ELSE walks'[i].filePaths =
                 IF due THEN Append(walk.filePaths, absolutePath)
                 ELSE walk.filePaths

\* C18: in every step of a walk, whether the unmatched set is still
\* non-empty or already empty, the visited entry is emitted iff it is not a
\* directory, at least one matcher matches its relative path and the
\* provider has a configuration for it.
C18_EmitDecision ==
    [][ \A i \in 1..Len(walks) :
            ( /\ pc = "searching"
              /\ walks[i].status = "running"
              /\ walks[i].todo # <<>>
              /\ walks'[i] # walks[i] ) => EmitRule(i) ]_vars

\* a walk with two different matchers emitted files after its unmatched
\* set had become empty, and left out a file it visited that has no
\* configuration
C18_Witness ==
    \E i \in 1..Len(walks) :
        /\ Cardinality(Range(walks[i].matchers)) = 2
        /\ walks[i].unmatchedPatterns = {}
        /\ Len(walks[i].filePaths) >= 2
        /\ walks[i].todo = <<>>
        /\ \E path \in FileEntries \ Range(walks[i].filePaths) :
               /\ IsProperPrefix(walks[i].basePath, path)
               /\ Between(walks[i].basePath, path) \cap ignoredDirectories = {}
               /\ SomeMatcherMatches(walks[i],
                                     Relative(walks[i].basePath, path))
               /\ ~ getConfig(path)

(***************************************************************************)
(* C19.                                                                    *)
(***************************************************************************)
\* a file the walk emitted matches the relative pattern
HasEmittedMatch(walk, matcher) ==
    \E path \in Range(walk.filePaths) :
        Match(matcher, Relative(walk.basePath, path), FALSE)

\* the unmatched set of every walk holds exactly the relative patterns that
\* match none of the files emitted so far
C19_Unmatched ==
    \A i \in 1..Len(walks) :
        walks[i].unmatchedPatterns =
            { m \in Range(walks[i].matchers) : ~ HasEmittedMatch(walks[i], m) }

\* the discovery error of a rejected search names a pattern of that search
\* that matches none of the files it emitted
C19_Error ==
    (pc = "done" /\ failing # 0) =>
        \E k \in 1..Len(walks[failing].matchers) :
            /\ walks[failing].rawPatterns[k] = outcome.pattern
            /\ ~ HasEmittedMatch(walks[failing], walks[failing].matchers[k])

\* C19: the unmatched set of a search starts as all its relative patterns,
\* only shrinks during the walk, and holds a pattern iff the walk emitted
\* no file matching it; so the error raised for unmatched patterns never
\* names a pattern that has a matching file among the emitted files.
C19_UnmatchedSet ==
    /\ [] C19_Unmatched
    /\ [] C19_Error
    /\ [][ pc = "classified" =>
               \A i \in 1..Len(walks') :
                   walks'[i].unmatchedPatterns = Range(walks'[i].matchers) ]_vars
    /\ [][ pc = "searching" =>
               \A i \in 1..Len(walks) :
                   walks'[i].unmatchedPatterns
                       \subseteq walks[i].unmatchedPatterns ]_vars

\* a search with two different patterns was rejected: it emitted a file for
\* one of them, the other is still unmatched although a file without a
\* configuration matches it, and the error names that other pattern
C19_Witness ==
    /\ pc = "done"
    /\ failing # 0
    /\ walks[failing].filePaths # <<>>
    /\ Cardinality(walks[failing].unmatchedPatterns) = 1
    /\ Cardinality(Range(walks[failing].matchers)) = 2
    /\ outcome.kind = "AllFilesIgnoredError"
    /\ \E path \in FileEntries :
           /\ ~ getConfig(path)
           /\ IsProperPrefix(walks[failing].basePath, path)
           /\ \E m \in walks[failing].unmatchedPatterns :
                  Match(m, Relative(walks[failing].basePath, path), FALSE)

(***************************************************************************)
(* C20.                                                                    *)
(***************************************************************************)
\* the directoryFilter of search i has run for the directory and returned
\* true: a matcher matches it in part, the provider was asked by this
\* search and does not ignore it
Accepted(i, directory) ==
    /\ \E m \in Range(walks[i].matchers) :
           Match(m, Relative(walks[i].basePath, directory), TRUE)
    /\ [search |-> i, op |-> "isDirectoryIgnored", path |-> directory]
           \in providerCalls
    /\ ~ isDirectoryIgnored(directory)

\* the paths the entryFilter of search i has asked the provider about
FilteredFiles(i) ==
    { c.path : c \in { call \in providerCalls :
                          /\ call.search = i
                          /\ call.op \in {"getConfig",
                                          "loadConfigArrayForFile"} } }

\* the paths of the entries search i has still to pass to its entryFilter
Pending(i) ==
    { Resolve(walks[i].basePath, walks[i].todo[n].path) :
          n \in 1..Len(walks[i].todo) }

\* C20: in every walk, an entry reaches the entryFilter (and the provider
\* is asked for its configuration) only after the directoryFilter has run
\* and returned true for every directory between the base path and the
\* entry; no entry of a pruned directory is ever queued for the filter.
C20_ParentFirst ==
    \A i \in 1..Len(walks) :
        \A path \in FilteredFiles(i) \cup Pending(i)
                     \cup Range(walks[i].filePaths) :
            \A d \in Between(walks[i].basePath, path) : Accepted(i, d)

\* a search asked for the configuration of a file two directories below
\* its base path, after it had pruned an ignored directory whose file it
\* never asked about
C20_Witness ==
    \E i \in 1..Len(walks) :
        /\ walks[i].basePath = cwd
        /\ (cwd \o <<"c", "d", "w.js">>) \in FilteredFiles(i)
        /\ [search |-> i, op |-> "isDirectoryIgnored", path |-> cwd \o <<"b">>]
               \in providerCalls
        /\ isDirectoryIgnored(cwd \o <<"b">>)
        /\ (cwd \o <<"b", "z.js">>) \notin FilteredFiles(i)
        /\ walks[i].status # "running"

(***************************************************************************)
(* C21.                                                                    *)
(***************************************************************************)
RECURSIVE RunWalk(_)
\* one search run alone from the given point to its end
RunWalk(walk) ==
    IF walk.status # "running" THEN walk
    ELSE IF walk.todo = <<>>
    THEN IF ThrowsUnmatched(walk, errorOnUnmatchedPattern)
         THEN [walk EXCEPT !.status = "rejected",
                           !.reason = UnmatchedSearchPatternsError]
         ELSE [walk EXCEPT !.status = "fulfilled"]
    ELSE LET entry == Head(walk.todo)
             e == entryFilter(walk, entry)
             d == IF entry.isDirectory THEN directoryFilter(walk, entry)
                  ELSE [descend |-> FALSE, asked |-> {}]
         IN  IF e.throws
             THEN [walk EXCEPT
                      !.status = "rejected",
                      !.reason = ProviderError(
                                     Resolve(walk.basePath, entry.path))]
             ELSE RunWalk([walk EXCEPT
                      !.unmatchedPatterns = e.unmatchedPatterns,
                      !.filePaths = IF e.emit
                                    THEN Append(@, EmittedPath(walk, entry))
                                    ELSE @,
                      !.todo = Descend(walk, entry, d)])

\* the searches of the call, each run alone to its end
RunAlone ==
    LET normalizedSearches ==
            NormalizedSearches(Classify(patterns, globInputPaths).searches)
    IN  [i \in 1..Len(normalizedSearches) |->
            RunWalk(globSearchStart(normalizedSearches[i]))]

\* the outcome of the call when its searches run one after the other
SequentialOutcome ==
    LET c == Classify(patterns, globInputPaths)
        k == FirstRejected(RunAlone)
    IN  IF ThrowsForMissing(c.missingPatterns, errorOnUnmatchedPattern)
        THEN MissingError(c.missingPatterns, globInputPaths)
        ELSE IF k = 0
        THEN Returned(MergeResults(c.results, FlatMap(RunAlone)))
        ELSE IF Unexpected(RunAlone[k]) THEN RunAlone[k].reason
        ELSE UnmatchedError(RunAlone[k], UnmatchedInOrder(RunAlone[k]))

\* a pattern leaves the unmatched set of a search only for a file that this
\* search emitted, and every settled search is where it ends when run alone
C21_OwnState ==
    \A i \in 1..Len(walks) :
        /\ { m \in Range(walks[i].matchers) : ~ HasEmittedMatch(walks[i], m) }
               \subseteq walks[i].unmatchedPatterns
        /\ walks[i].status # "running" =>
               walks[i] = RunWalk(globSearchStart(NormalizedSearches(searches)[i]))

\* C21: the searches are independent. A step of one search changes nothing
\* of another; each search has its own unmatched set and file list, which
\* depend on its own walk alone even when two searches hold the same
\* relative pattern; and the outcome of the call is the one obtained by
\* running the searches one after the other, whatever the interleaving.
C21_Independent ==
    /\ [] C21_OwnState
    /\ [] (pc = "done" => outcome = SequentialOutcome)
    /\ [][ pc = "searching" =>
               \A i, j \in 1..Len(walks) :
                   (i # j /\ walks'[i] # walks[i]) => walks'[j] = walks[j] ]_vars

\* two searches that walked to their end hold the same relative pattern;
\* one emitted a file for it, the other still has it unmatched, and the
\* later one in launch order settled first
C21_Witness ==
    /\ pc = "done"
    /\ \E i, j \in 1..Len(walks) :
           /\ i < j
           /\ firstSettled = j
           /\ walks[i].todo = <<>>
           /\ walks[j].todo = <<>>
           /\ \E m \in Range(walks[i].matchers) \cap Range(walks[j].matchers) :
                  /\ m \in walks[j].unmatchedPatterns
                  /\ m \notin walks[i].unmatchedPatterns
                  /\ HasEmittedMatch(walks[i], m)

(***************************************************************************)
(* C22.                                                                    *)
(***************************************************************************)
\* the typed pattern is handed to a search: it names a directory, or its
\* stat fails, globs are enabled and its normalized form is a glob
TypedIsSearched(input) ==
    \/ NamesDirectory(input)
    \/ /\ Stat(Resolve(cwd, input)) = "none"
       /\ globInputPaths
       /\ isGlobPattern(normalizeToPosix(input))

\* the base path of the search a typed pattern belongs to
TypedBase(input) ==
    IF NamesDirectory(input) THEN Resolve(cwd, input)
    ELSE Resolve(cwd, StaticPrefix(normalizeToPosix(input)))

\* the pattern a search holds for a typed pattern
TypedPattern(input) ==
    IF NamesDirectory(input)
    THEN normalizeToPosix(Resolve(cwd, input)) \o <<GLOBSTAR>>
    ELSE Resolve(cwd, input)

\* the indexes of the typed patterns that belong to the search of a base
GroupIndexes(basePath) ==
    { k \in PatternIndexes :
          TypedIsSearched(patterns[k]) /\ TypedBase(patterns[k]) = basePath }

\* the n-th smallest member of a set of indexes
NthIndex(indexes, n) ==
    CHOOSE k \in indexes : Cardinality({ j \in indexes : j < k }) = n - 1

\* every search has two lists of one length, the length being the number
\* of typed patterns that belong to it, and position n holds the pattern of
\* the n-th of them
ParallelLists ==
    \A g \in 1..Len(searches) :
        LET indexes == GroupIndexes(searches[g].basePath)
        IN  /\ Len(searches[g].patterns) = Len(searches[g].rawPatterns)
            /\ Len(searches[g].patterns) = Cardinality(indexes)
            /\ \A n \in 1..Len(searches[g].patterns) :
                   searches[g].patterns[n]
                       = TypedPattern(patterns[NthIndex(indexes, n)])

\* the typed patterns whose pattern in the rejected search is the first
\* unmatched one
FirstUnmatchedInputs ==
    LET walk == walks[failing]
    IN  { patterns[k] : k \in
            { j \in GroupIndexes(walk.basePath) :
                  TypedPattern(patterns[j])
                      = walk.patterns[FirstUnmatched(walk)] } }

====
